---- MODULE Spec2Model ----
(***************************************************************************)
(* grabby: ingestion of removable-media cards.                             *)
(*                                                                         *)
(* The model covers card_event / handle_card_insert (grabby.py), the       *)
(* AppConfigFile lock, debounce timer and load/reload (config.py) and the  *)
(* failure behaviour of organize_files_in_place (organizer.py).            *)
(*                                                                         *)
(* Threads of control: the device-event callback card_event may run on     *)
(* any of the threads in Threads; every config-change notification starts  *)
(* a threading.Timer, i.e. one more thread, which runs reload().           *)
(***************************************************************************)
EXTENDS Integers, Sequences, FiniteSets, TLC

\* ------------------------------------------------------------------ bounds
\* Number of threads that deliver device events.
MaxThreads == 2
\* Number of external inputs in one behaviour: device events delivered plus
\* config-change notifications (each notification starts one Timer thread).
MaxInputs == 2
\* Number of files on the large card (progress counter passes 100).
BigCard == 109

\* ------------------------------------------------- program constants
\* threading.Timer(1.0, self.reload): the quiet period, in clock ticks.
QuietTicks == 2
\* "if progress % 10 == 0": a snapshot is pushed every PushEvery units.
PushEvery == 10
\* "app_state.progress = 100" on success.
FullProgress == 100

Threads == 1..MaxThreads
Timers == 1..MaxInputs
NoTimer == 0

\* ------------------------------------------------------------ device names
Letters ==
    {"a","b","c","d","e","f","g","h","i","j","k","l","m",
     "n","o","p","q","r","s","t","u","v","w","x","y","z"}
Digits == {"0","1","2","3","4","5","6","7","8","9"}

\* re.search(r"[hs]d[a-z](\d+)", sys_name): a match anywhere in the name.
DrvMatch(s) ==
    \E i \in 1..Len(s) :
        /\ i + 3 <= Len(s)
        /\ s[i] \in {"h", "s"}
        /\ s[i+1] = "d"
        /\ s[i+2] \in Letters
        /\ s[i+3] \in Digits

\* re.search(r"mmcblk(\d+)p(\d+)", sys_name).
MmcMatch(s) ==
    \E i \in 1..Len(s) : \E k \in 1..Len(s) :
        /\ i + 7 + k <= Len(s)
        /\ SubSeq(s, i, i+5) = <<"m","m","c","b","l","k">>
        /\ \A j \in (i+6)..(i+5+k) : s[j] \in Digits
        /\ s[i+6+k] = "p"
        /\ s[i+7+k] \in Digits

\* card_event accepts the device iff one of the two patterns matches.
AcceptAll(s) == TRUE

\* lines 266-270: the event is handled if either pattern is found.
Accepted(s) == DrvMatch(s) \/ MmcMatch(s)

Sdb1 == <<"s","d","b","1">>
Mmc0p1 == <<"m","m","c","b","l","k","0","p","1">>
Loop0 == <<"l","o","o","p","0">>
\* The sys_name of the events delivered; the device node is /dev/<sys_name>.
SysNames == {Sdb1, Mmc0p1, Loop0}
Actions == {"add", "remove"}

\* ------------------------------------------------------------- file names
\* A file name is <id><stem>(.<suffix>)*; the tokens used are such that none
\* is a proper suffix of another, so str.endswith on tokens is equality.
\* Files(first, count, ...) stands for count directory entries of the same
\* kind, numbered first .. first+count-1 (a camera's numbered series).
Files(first, count, stem, sufs, isfile) ==
    [first |-> first, count |-> count, stem |-> stem, sufs |-> sufs, isfile |-> isfile]

\* The file names a series stands for.
Names(r) == {[id |-> i, stem |-> r.stem, sufs |-> r.sufs] :
                i \in r.first..(r.first + r.count - 1)}

\* The number of entries in a sequence of series.
RECURSIVE Count(_)
Count(rs) == IF rs = <<>> THEN 0 ELSE Head(rs).count + Count(Tail(rs))

\* The first k entries of a sequence of series.
RECURSIVE Take(_, _)
Take(rs, k) ==
    IF k <= 0 \/ rs = <<>> THEN <<>>
    ELSE IF Head(rs).count <= k THEN <<Head(rs)>> \o Take(Tail(rs), k - Head(rs).count)
    ELSE <<[Head(rs) EXCEPT !.count = k]>>

\* str.lower() on a token.
Lower(tok) == IF tok = "JPG" THEN "jpg" ELSE IF tok = "MP4" THEN "mp4" ELSE tok

\* The last dot-separated token of the name (the whole stem when no suffix).
LastToken(n) == IF n.sufs = <<>> THEN n.stem ELSE n.sufs[Len(n.sufs)]

\* src_file.name.lower().endswith(tuple(grab.types))
MatchesTypes(n, types) == \E ty \in types : Lower(LastToken(n)) = ty

\* ------------------------------------------------------------ the card
DCIM == "DCIM"
CLIP == "CLIP"
Paths == {DCIM, CLIP}
\* A folder and its entries in the order Path.iterdir() lists them.
Folder(es) == [exists |-> TRUE, entries |-> es]
NoFolder == [exists |-> FALSE, entries |-> <<>>]

Jpgs(n) == Files(1, n, "img", <<"jpg">>, TRUE)

\* 3 jpg + 1 txt in DCIM, one clip in CLIP (the spec's scenario).
CardPhotos ==
    [p \in Paths |->
        IF p = DCIM
        THEN Folder(<<Jpgs(2), Files(3, 1, "img", <<"JPG">>, TRUE),
                      Files(4, 1, "note", <<"txt">>, TRUE)>>)
        ELSE Folder(<<Files(5, 1, "clip", <<"mp4">>, TRUE)>>)]
\* Nothing that matches: a text file and a directory.
CardNoMedia ==
    [p \in Paths |->
        IF p = DCIM
        THEN Folder(<<Files(4, 1, "note", <<"txt">>, TRUE),
                      Files(6, 1, "thumbs", <<>>, FALSE)>>)
        ELSE Folder(<<>>)]
\* A card without the CLIP folder.
CardNoClip ==
    [p \in Paths |-> IF p = DCIM THEN Folder(<<Jpgs(1)>>) ELSE NoFolder]
\* A directory whose name ends with a grabbed type, and a file with no suffix.
CardOdd ==
    [p \in Paths |->
        IF p = DCIM
        THEN Folder(<<Files(7, 1, "dir", <<"jpg">>, FALSE)>>)
        ELSE Folder(<<Files(8, 1, "mp4", <<>>, TRUE)>>)]
\* Many photos.
CardBig == [p \in Paths |-> IF p = DCIM THEN Folder(<<Jpgs(BigCard)>>) ELSE Folder(<<>>)]

\* Path.iterdir(): the entries of a folder.
IterDir(folder) == folder.entries

\* --------------------------------------------------------- configuration
NONE == "NONE"
TREE == "TREE"
OVERWRITE == "OVERWRITE"
RenameMethods == {NONE, TREE, OVERWRITE}

\* RenameMethod.value
MethodValue(m) == IF m = NONE THEN 0 ELSE IF m = TREE THEN 1 ELSE 2

GrabConfig(path, never_delete, types, method) ==
    [path |-> path, never_delete |-> never_delete, types |-> types,
     rename_method |-> method]

\* One entry of the YAML 'grabs' mapping, before RenameMethod[...] is applied.
RawGrab(path, never_delete, types, method) ==
    [path |-> path, never_delete |-> never_delete, types |-> types,
     method |-> method]

\* A parsed YAML document (raw_config) with a 'grabs' key.
RawConfig(dac, grabs) ==
    [parsed |-> TRUE, delete_after_copy |-> dac, has_grabs |-> TRUE, grabs |-> grabs]
\* A parsed YAML document without the 'grabs' key.
RawNoGrabs(dac) ==
    [parsed |-> TRUE, delete_after_copy |-> dac, has_grabs |-> FALSE, grabs |-> <<>>]
\* A file yaml.safe_load cannot parse.
Unparsable ==
    [parsed |-> FALSE, delete_after_copy |-> TRUE, has_grabs |-> FALSE, grabs |-> <<>>]

RawDcim(m) == RawGrab(DCIM, FALSE, {"jpg"}, m)
RawClip(m) == RawGrab(CLIP, FALSE, {"mp4"}, m)

\* The valid documents the config file may hold.
ValidSnapshots ==
    {RawConfig(TRUE, <<RawDcim(NONE)>>),
     RawConfig(TRUE, <<RawDcim(TREE)>>),
     RawConfig(FALSE, <<RawDcim(TREE), RawClip(OVERWRITE)>>),
     RawConfig(TRUE, <<RawDcim(OVERWRITE), RawGrab(CLIP, TRUE, {"mp4"}, TREE)>>),
     RawConfig(FALSE, <<>>)}
\* The invalid ones: no 'grabs' key, an unknown rename method, not YAML.
InvalidSnapshots ==
    {RawNoGrabs(FALSE),
     RawConfig(FALSE, <<RawClip(TREE), RawDcim("BOGUS")>>),
     Unparsable}
\* What a reload may find in the file after it was modified.
Snapshots ==
    {RawConfig(TRUE, <<RawClip(OVERWRITE), RawDcim(TREE)>>)} \cup InvalidSnapshots

\* RenameMethod[rename_method.upper()] succeeds.
KnownMethod(m) == m \in RenameMethods

ParseGrab(r) == GrabConfig(r.path, r.never_delete, r.types, r.method)

RECURSIVE ParseGrabs(_)
ParseGrabs(rs) ==
    IF rs = <<>> THEN <<>> ELSE <<ParseGrab(Head(rs))>> \o ParseGrabs(Tail(rs))

\* ------------------------------------------------------------------ state
READY == "READY"
BUSY == "BUSY"
ERROR == "ERROR"

AppState(status, media_count, progress, card_id) ==
    [status |-> status, media_count |-> media_count,
     progress |-> progress, card_id |-> card_id]


VARIABLES
    processed_devices,  \* grabby.processed_devices: the dedupe set
    lock,               \* AppConfigFile._lock is held
    app_state,          \* grabby.app_state
    pushed,             \* snapshots sent by emit_ha_state_update in the current run
    cfg,                \* AppConfigFile._config and its mirrored attributes
    lists,              \* the list objects that cfg.grabs has pointed to
    card,               \* the grab folders of the card
    mounts,             \* per device node: where it is mounted
    pc,                 \* position of every device-event thread
    dev,                \* device_node of the event a thread is handling
    total_progress,     \* local of handle_card_insert
    progress,           \* local of handle_card_insert
    src_file_list,      \* local of handle_card_insert
    grabs_iter,         \* the list object the current for-loop iterates
    gi,                 \* index of that loop
    h,                  \* per run: what has happened so far (observation only)
    tpc,                \* position of every Timer thread
    remaining,          \* ticks until a Timer's interval has passed
    raw,                \* raw_config local of load()
    rgi,                \* index of load()'s loop over raw_config['grabs']
    nEvents,            \* device events delivered so far that left a trace
    nNotifs,            \* notifications so far; self._timer is Timer nNotifs
    since_notify,       \* ticks since the last notification (capped)
    gap_short,          \* per Timer: it arrived less than QuietTicks after the previous
    fire_age,           \* per Timer: since_notify when its reload started
    warned,             \* "Unknown device pattern" has been logged
    org                 \* a call of organize_files_in_place: arguments and outcome

vars ==
    <<processed_devices, lock, app_state, pushed, cfg, lists, card, mounts,
      pc, dev, total_progress, progress, src_file_list, grabs_iter, gi, h,
      tpc, remaining, raw, rgi, nEvents, nNotifs, since_notify,
      gap_short, fire_age, warned, org>>

eventVars == <<pc, dev, total_progress, progress, src_file_list, grabs_iter, gi, h>>
timerVars == <<tpc, remaining, raw, rgi, nNotifs, since_notify, gap_short, fire_age>>

NoDev == <<>>

\* Mountpoints: none, app_config.mount_base, and the directory at which the
\* desktop has mounted a card before the program sees it.
NoMount == "none"
MountBase == "mount_base"
MediaCard == "/media/card"
NoSnap == AppState("NONE", 0, 0, NoDev)

\* What a run has done so far; reset when the thread returns to card_event.
NoHist ==
    [mount_ok |-> FALSE,    \* mount_device returned a mountpoint
     mountpoint |-> NoMount, \* the local mountpoint
     mount_cmds |-> 0,      \* mount_base.mkdir and mount commands issued
     fs_fail |-> FALSE,     \* a filesystem operation of the run failed
     scan_done |-> FALSE,   \* the scan pass went through every grab
     removed |-> FALSE,     \* a remove event cleared the node's mark during the run
     dest_made |-> FALSE,   \* the timestamped destination folder was created
     copies |-> <<>>,       \* the copy2 calls that succeeded
     deleted |-> {},        \* source folders deleted: the grab and what the folder held
     organized |-> {},      \* indexes of the grabs the organizer was called for
     org_fail |-> FALSE,    \* organize_files_in_place raised
     div0 |-> FALSE,        \* a division by total_progress = 0 was evaluated
     unlocks |-> 0,         \* app_config.unlock() calls
     unmounts |-> 0,        \* unmount_device calls
     fin |-> NoSnap,        \* the snapshot pushed last, at the end of the run
     cleared |-> FALSE,     \* the run's processed_devices.remove was executed
     exc |-> FALSE]         \* an exception is propagating out of the function

\* No call of the organizer on its own is under way.
NoCall == [pc |-> "none"]

\* The configurations the program may have loaded at start, and the card.
Scenarios ==
    {<<s, CardPhotos>> : s \in ValidSnapshots \ {RawConfig(TRUE, <<RawDcim(TREE)>>)}}
    \cup {<<RawConfig(TRUE, <<RawDcim(TREE)>>), CardBig>>}
    \cup {<<RawConfig(FALSE, <<RawDcim(TREE), RawClip(OVERWRITE)>>), c>> :
             c \in {CardNoMedia, CardNoClip, CardOdd}}

\* The state after construction, for a configuration file and a card; call is
\* the organizer call under examination, if any.
Start(sc, call) ==
        /\ processed_devices = {}
        /\ lock = FALSE
        /\ app_state = AppState(READY, 0, 0, NoDev)
        /\ pushed = <<>>
        /\ cfg = [delete_after_copy |-> sc[1].delete_after_copy, grabs |-> 0]
        /\ lists = [i \in 0..MaxInputs |-> IF i = 0 THEN ParseGrabs(sc[1].grabs) ELSE <<>>]
        /\ card = sc[2]
        /\ mounts = [s \in SysNames |-> IF s = Mmc0p1 THEN MediaCard ELSE NoMount]
        /\ pc = [t \in Threads |-> "idle"]
        /\ dev = [t \in Threads |-> NoDev]
        /\ total_progress = [t \in Threads |-> 0]
        /\ progress = [t \in Threads |-> 0]
        /\ src_file_list = [t \in Threads |-> <<>>]
        /\ grabs_iter = [t \in Threads |-> 0]
        /\ gi = [t \in Threads |-> 0]
        /\ h = [t \in Threads |-> NoHist]
        /\ tpc = [i \in Timers |-> "unused"]
        /\ remaining = [i \in Timers |-> 0]
        /\ raw = [i \in Timers |-> Unparsable]
        /\ rgi = [i \in Timers |-> 0]
        /\ nEvents = 0
        /\ nNotifs = 0
        /\ since_notify = QuietTicks
        /\ gap_short = [i \in Timers |-> FALSE]
        /\ fire_age = [i \in Timers |-> 0]
        /\ warned = FALSE
        /\ org = call

Init == \E sc \in Scenarios : Start(sc, NoCall)

\* Positions inside handle_card_insert.
RunPcs ==
    {"hci_lock", "hci_busy", "hci_mount", "hci_mount_failed", "hci_scan_begin",
     "hci_scan", "hci_check", "hci_copy", "hci_delete",
     "hci_organize", "hci_success", "hci_except", "hci_finally", "hci_unmount",
     "hci_return"}
\* Positions at which the run holds AppConfigFile._lock (lines 142-248).
HoldPcs ==
    {"hci_busy", "hci_mount", "hci_mount_failed", "hci_scan_begin",
     "hci_scan", "hci_check", "hci_copy", "hci_delete",
     "hci_organize", "hci_success", "hci_except", "hci_finally"}

InRun(t) == pc[t] \in RunPcs
HoldsLock(t) == pc[t] \in HoldPcs

\* ------------------------------------------------------------ card_event
\* line 289: the membership test of an add event.
AddNeedsRun(s) == s \notin processed_devices

\* card_event lines 266-300, up to the membership test on processed_devices.
\* For an unknown pattern the warning of line 269 is logged.  An event for
\* an accepted node that is ignored (node already marked, node not marked)
\* changes nothing and is not counted as an input.  The threads are
\* interchangeable: the event is delivered on the first one that is free.

CardEvent(t) ==
    /\ pc[t] = "idle"
    /\ \A u \in Threads : u < t => pc[u] /= "idle"
    /\ nEvents + nNotifs < MaxInputs
    /\ \E a \in Actions : \E s \in SysNames :
        LET to == IF ~Accepted(s) THEN "idle"
                  ELSE IF a = "add"
                  THEN (IF AddNeedsRun(s) THEN "add_mark" ELSE "idle")
                  ELSE (IF s \in processed_devices THEN "rm_mark" ELSE "idle")
        IN /\ pc' = [pc EXCEPT ![t] = to]
           /\ dev' = [dev EXCEPT ![t] = IF to = "idle" THEN NoDev ELSE s]
           /\ nEvents' = IF to = "idle" /\ Accepted(s) THEN nEvents ELSE nEvents + 1
           /\ warned' = (warned \/ ~Accepted(s))
    /\ UNCHANGED <<processed_devices, lock, app_state, pushed, cfg, lists, card, mounts,
                   total_progress, progress, src_file_list, grabs_iter, gi, h>>
    /\ UNCHANGED timerVars
    /\ UNCHANGED org

\* card_event lines 290-292: with device_lock: processed_devices.add(...),
\* then the call of handle_card_insert.
AddMark(t) ==
    /\ pc[t] = "add_mark"
    /\ processed_devices' = processed_devices \cup {dev[t]}
    /\ pc' = [pc EXCEPT ![t] = "hci_lock"]
    /\ UNCHANGED <<lock, app_state, pushed, cfg, lists, card, mounts, dev,
                   total_progress, progress, src_file_list, grabs_iter, gi, h,
                   nEvents>>
    /\ UNCHANGED timerVars
    /\ UNCHANGED <<warned, org>>

\* card_event lines 296-298: with device_lock: processed_devices.remove(...).
\* set.remove raises KeyError when the node is no longer a member.
RemoveMark(t) ==
    /\ pc[t] = "rm_mark"
    /\ IF dev[t] \in processed_devices
       THEN /\ processed_devices' = processed_devices \ {dev[t]}
            /\ pc' = [pc EXCEPT ![t] = "idle"]
            /\ h' = [u \in Threads |->
                        IF InRun(u) /\ dev[u] = dev[t]
                        THEN [h[u] EXCEPT !.removed = TRUE] ELSE h[u]]
       ELSE /\ pc' = [pc EXCEPT ![t] = "raised"]
            /\ UNCHANGED <<processed_devices, h>>
    /\ dev' = [dev EXCEPT ![t] = NoDev]
    /\ UNCHANGED <<lock, app_state, pushed, cfg, lists, card, mounts,
                   total_progress, progress, src_file_list, grabs_iter, gi,
                   nEvents>>
    /\ UNCHANGED timerVars
    /\ UNCHANGED <<warned, org>>

\* ---------------------------------------------------- handle_card_insert
\* emit_ha_state_update() after app_state became st.
Emit(st) == pushed' = Append(pushed, st)

\* The multiples of PushEvery in a+1..b, ascending: the progress values at
\* which "if progress % 10 == 0" pushes a snapshot.
Tenths(a, b) ==
    SelectSeq([j \in 1..(b - a) |-> a + j], LAMBDA x : x % PushEvery = 0)

\* The snapshots pushed at those values.
Snapshots10(st, ps) == [j \in 1..Len(ps) |-> [st EXCEPT !.progress = ps[j]]]

\* k times: "progress += 1", the f-string int(progress*100/total_progress),
\* then "if progress % 10 == 0: app_state.progress = progress; emit".
\* The division raises ZeroDivisionError when total_progress is 0.
Advance(t, k, next, hist) ==
    IF k > 0 /\ total_progress[t] = 0
    THEN /\ progress' = [progress EXCEPT ![t] = @ + 1]
         /\ pc' = [pc EXCEPT ![t] = "hci_except"]
         /\ h' = [h EXCEPT ![t] = [hist EXCEPT !.div0 = TRUE]]
         /\ UNCHANGED <<app_state, pushed>>
    ELSE LET ps == Tenths(progress[t], progress[t] + k) IN
         /\ progress' = [progress EXCEPT ![t] = @ + k]
         /\ pc' = [pc EXCEPT ![t] = next]
         /\ h' = [h EXCEPT ![t] = hist]
         /\ app_state' = IF ps = <<>> THEN app_state
                         ELSE [app_state EXCEPT !.progress = ps[Len(ps)]]
         /\ pushed' = pushed \o Snapshots10(app_state, ps)

\* line 141: app_config.lock() blocks until the lock is free.
AcquireLock(t) ==
    /\ pc[t] = "hci_lock"
    /\ ~lock
    /\ lock' = TRUE
    /\ pc' = [pc EXCEPT ![t] = "hci_busy"]
    /\ UNCHANGED <<processed_devices, app_state, pushed, cfg, lists, card, mounts, dev,
                   total_progress, progress, src_file_list, grabs_iter, gi, h,
                   nEvents>>
    /\ UNCHANGED timerVars
    /\ UNCHANGED <<warned, org>>

\* lines 143-147: BUSY, counters reset, first snapshot pushed.
SetBusy(t) ==
    /\ pc[t] = "hci_busy"
    /\ app_state' = AppState(BUSY, 0, 0, dev[t])
    /\ pushed' = <<app_state'>>
    /\ pc' = [pc EXCEPT ![t] = "hci_mount"]
    /\ UNCHANGED <<processed_devices, lock, cfg, lists, card, mounts, dev,
                   total_progress, progress, src_file_list, grabs_iter, gi, h,
                   nEvents>>
    /\ UNCHANGED timerVars
    /\ UNCHANGED <<warned, org>>

\* get_mounts (lines 45-56): the mountpoints of the node.
get_mounts(s) == IF mounts[s] = NoMount THEN <<>> ELSE <<mounts[s]>>

NeverMounted(s) == FALSE

\* mount_device line 70: "if mounts".
AlreadyMounted(s) == get_mounts(s) /= <<>>

\* lines 149-151 with mount_device (59-84): the mountpoint of an already
\* mounted node is returned as it is; otherwise mount_base is created and
\* the mount command succeeds or fails.
Mount(t) ==
    /\ pc[t] = "hci_mount"
    /\ IF AlreadyMounted(dev[t])
       THEN /\ pc' = [pc EXCEPT ![t] = "hci_scan_begin"]
            /\ h' = [h EXCEPT ![t].mount_ok = TRUE,
                              ![t].mountpoint = get_mounts(dev[t])[1]]
            /\ UNCHANGED mounts
       ELSE \E ok \in BOOLEAN :
            IF ok
            THEN /\ mounts' = [mounts EXCEPT ![dev[t]] = MountBase]
                 /\ pc' = [pc EXCEPT ![t] = "hci_scan_begin"]
                 /\ h' = [h EXCEPT ![t].mount_ok = TRUE,
                                   ![t].mountpoint = MountBase,
                                   ![t].mount_cmds = @ + 1]
            ELSE /\ pc' = [pc EXCEPT ![t] = "hci_mount_failed"]
                 /\ h' = [h EXCEPT ![t].mount_cmds = @ + 1]
                 /\ UNCHANGED mounts
    /\ UNCHANGED <<processed_devices, lock, app_state, pushed, cfg, lists, card, dev,
                   total_progress, progress, src_file_list, grabs_iter, gi,
                   nEvents>>
    /\ UNCHANGED timerVars
    /\ UNCHANGED <<warned, org>>

\* lines 151-157: the except RuntimeError branch: ERROR, the mark removed
\* (KeyError when it is gone), the state pushed, return.
MountFailed(t) ==
    /\ pc[t] = "hci_mount_failed"
    /\ app_state' = [app_state EXCEPT !.status = ERROR]
    /\ IF dev[t] \in processed_devices
       THEN /\ processed_devices' = processed_devices \ {dev[t]}
            /\ Emit(app_state')
            /\ h' = [h EXCEPT ![t].fin = app_state', ![t].cleared = TRUE]
       ELSE /\ h' = [h EXCEPT ![t].exc = TRUE]
            /\ UNCHANGED <<processed_devices, pushed>>
    /\ pc' = [pc EXCEPT ![t] = "hci_return"]
    /\ UNCHANGED <<lock, cfg, lists, card, mounts, dev,
                   total_progress, progress, src_file_list, grabs_iter, gi,
                   nEvents>>
    /\ UNCHANGED timerVars
    /\ UNCHANGED <<warned, org>>

\* lines 160-164: the locals, and the list object the first loop iterates.
ScanBegin(t) ==
    /\ pc[t] = "hci_scan_begin"
    /\ total_progress' = [total_progress EXCEPT ![t] = 0]
    /\ src_file_list' = [src_file_list EXCEPT ![t] = <<>>]
    /\ grabs_iter' = [grabs_iter EXCEPT ![t] = cfg.grabs]
    /\ gi' = [gi EXCEPT ![t] = 1]
    /\ pc' = [pc EXCEPT ![t] = "hci_scan"]
    /\ UNCHANGED <<processed_devices, lock, app_state, pushed, cfg, lists, card, mounts,
                   dev, progress, h, nEvents>>
    /\ UNCHANGED timerVars
    /\ UNCHANGED <<warned, org>>

\* lines 170-175: the entries of the grab's folder that are collected.
\* (No is_file() test: every entry whose name matches is taken.)
ScanMatches(g) ==
    SelectSeq(IterDir(card[g.path]), LAMBDA e : MatchesTypes(e, g.types))

\* line 173: the Path objects appended to src_file_list.
SrcFiles(dir, es) ==
    [k \in 1..Len(es) |->
        [dir |-> dir, first |-> es[k].first, count |-> es[k].count,
         stem |-> es[k].stem, sufs |-> es[k].sufs]]

\* lines 164-175: one iteration of the first pass; iterdir() raises when the
\* folder does not exist.
ScanGrab(t) ==
    /\ pc[t] = "hci_scan"
    /\ LET gs == lists[grabs_iter[t]] IN
       IF gi[t] > Len(gs)
       THEN /\ pc' = [pc EXCEPT ![t] = "hci_check"]
            /\ h' = [h EXCEPT ![t].scan_done = TRUE]
            /\ UNCHANGED <<total_progress, src_file_list, gi, app_state>>
       ELSE LET g == gs[gi[t]] IN
            IF ~card[g.path].exists
            THEN /\ pc' = [pc EXCEPT ![t] = "hci_except"]
                 /\ total_progress' = [total_progress EXCEPT ![t] =
                        @ + 1 + (IF MethodValue(g.rename_method) > 0 THEN 1 ELSE 0)]
                 /\ h' = [h EXCEPT ![t].fs_fail = TRUE]
                 /\ UNCHANGED <<src_file_list, gi, app_state>>
            ELSE LET m == ScanMatches(g) IN
                 /\ total_progress' = [total_progress EXCEPT ![t] =
                        @ + 1 + (IF MethodValue(g.rename_method) > 0 THEN 1 ELSE 0)
                          + Count(m)]
                 /\ src_file_list' = [src_file_list EXCEPT ![t] = @ \o SrcFiles(g.path, m)]
                 /\ app_state' = [app_state EXCEPT !.media_count = @ + Count(m)]
                 /\ gi' = [gi EXCEPT ![t] = @ + 1]
                 /\ UNCHANGED <<pc, h>>
    /\ UNCHANGED <<processed_devices, lock, pushed, cfg, lists, card, mounts, dev,
                   progress, grabs_iter, nEvents>>
    /\ UNCHANGED timerVars
    /\ UNCHANGED <<warned, org>>

\* lines 177-189: nothing to copy, or the destination folder is created and
\* the second loop starts.
CheckMedia(t) ==
    /\ pc[t] = "hci_check"
    /\ IF app_state.media_count = 0
       THEN /\ pc' = [pc EXCEPT ![t] = "hci_success"]
            /\ UNCHANGED <<progress, grabs_iter, gi, h>>
       ELSE /\ h' = [h EXCEPT ![t].dest_made = TRUE]
            /\ progress' = [progress EXCEPT ![t] = 0]
            /\ grabs_iter' = [grabs_iter EXCEPT ![t] = cfg.grabs]
            /\ gi' = [gi EXCEPT ![t] = 1]
            /\ pc' = [pc EXCEPT ![t] = "hci_copy"]
    /\ UNCHANGED <<processed_devices, lock, app_state, pushed, cfg, lists, card, mounts,
                   dev, total_progress, src_file_list, nEvents>>
    /\ UNCHANGED timerVars
    /\ UNCHANGED <<warned, org>>

\* line 198: the files the copy loop of a grab goes through.
CopyList(t) == src_file_list[t]

\* shutil.copy2 can read the source: it is still a regular file of the card.
Readable(sf) ==
    /\ card[sf.dir].exists
    /\ \E k \in 1..Len(card[sf.dir].entries) :
           card[sf.dir].entries[k] = Files(sf.first, sf.count, sf.stem, sf.sufs, TRUE)

\* The positions of a copy loop over n files at which an I/O error is injected.
FaultPoints(n) == {1, n} \cap 1..n

\* The copy2 calls of grab g for the first k files of the list: from the
\* card's folder cs[j].dir into the target folder named after g.path.
CopyOps(g, fs, k) ==
    LET cs == Take(fs, k) IN
    [j \in 1..Len(cs) |->
        [grab |-> g, to |-> g.path, from |-> cs[j].dir, first |-> cs[j].first,
         count |-> cs[j].count, stem |-> cs[j].stem, sufs |-> cs[j].sufs]]

\* lines 189-206: the target folder of the grab and the loop that copies the
\* files into it; it stops at the first copy2 that fails (the source is gone
\* or is a directory, or an I/O error).  When the loop over the grabs is
\* over, line 224 starts the organize loop.
CopyFiles(t) ==
    /\ pc[t] = "hci_copy"
    /\ IF gi[t] > Len(lists[grabs_iter[t]])
       THEN /\ grabs_iter' = [grabs_iter EXCEPT ![t] = cfg.grabs]
            /\ gi' = [gi EXCEPT ![t] = 1]
            /\ pc' = [pc EXCEPT ![t] = "hci_organize"]
            /\ UNCHANGED <<progress, h, app_state, pushed>>
       ELSE LET g == lists[grabs_iter[t]][gi[t]]
                fs == CopyList(t)
                n == Count(fs)
                bad == {Count(SubSeq(fs, 1, j - 1)) + 1 :
                            j \in {i \in 1..Len(fs) : ~Readable(fs[i])}}
            IN \E f \in {0} \cup FaultPoints(n) :
                LET stops == bad \cup (IF f = 0 THEN {} ELSE {f})
                    stop == IF stops = {} THEN n + 1
                            ELSE CHOOSE j \in stops : \A k \in stops : j <= k
                    divz == total_progress[t] = 0 /\ stop > 1
                    k == IF divz THEN 1 ELSE stop - 1
                    hist == [h[t] EXCEPT !.copies = @ \o CopyOps(g, fs, k)]
                IN /\ UNCHANGED <<grabs_iter, gi>>
                   /\ IF stop <= n /\ ~divz
                      THEN Advance(t, k, "hci_except", [hist EXCEPT !.fs_fail = TRUE])
                      ELSE Advance(t, k, "hci_delete", hist)
    /\ UNCHANGED <<processed_devices, lock, cfg, lists, card, mounts, dev,
                   total_progress, src_file_list, nEvents>>
    /\ UNCHANGED timerVars
    /\ UNCHANGED <<warned, org>>

\* lines 208-221: the source folder is deleted and recreated, or kept.
DeleteAfterCopy(t) ==
    /\ pc[t] = "hci_delete"
    /\ LET g == lists[grabs_iter[t]][gi[t]]
           del == cfg.delete_after_copy /\ ~g.never_delete
       IN /\ card' = IF del THEN [card EXCEPT ![g.path] = Folder(<<>>)] ELSE card
          /\ gi' = [gi EXCEPT ![t] = @ + 1]
          /\ Advance(t, 1, "hci_copy",
                     IF del
                     THEN [h[t] EXCEPT !.deleted =
                              @ \cup {[grab |-> g, entries |-> IterDir(card[g.path])]}]
                     ELSE h[t])
    /\ UNCHANGED <<processed_devices, lock, cfg, lists, mounts, dev,
                   total_progress, src_file_list, grabs_iter, nEvents>>
    /\ UNCHANGED timerVars
    /\ UNCHANGED <<warned, org>>

\* ------------------------------------------------ organize_files_in_place
\* A file name here is its stem, a sequence of tokens, and its suffixes
\* (Path.suffixes); a token never contains another one.
Name(stem, sufs) == [stem |-> stem, sufs |-> sufs]

\* Calendar dates, written as strftime("%Y%m%d") writes them.
Day1 == "20240105"
Day2 == "20231231"
Dates == {Day1, Day2}
\* The date's year, month and day, as the sub-folders of TREE are named.
YearMonthDay(d) == IF d = Day1 THEN <<"2024", "01", "05">> ELSE <<"2023", "12", "31">>
\* file_idx written with format 05d.
Idx5(file_idx) == <<"00001", "00002", "00003">>[file_idx]
\* get_local_date_from_media_info returned None.
NoDate == "None"
\* get_local_date_from_media_info raised (MediaInfo.parse, gettz).
TagRaises == "raises"
\* media_tag=None, and a configured MediaInfoTag.
NoTag == "None"
EncodedDate == "General/Encoded date"

NoError == "none"
\* The directory given to the organizer is not a sub-folder of anything.
Root == <<>>

\* An entry of the directory: a regular file or a sub-directory, the date of
\* its st_mtime and what its media container yields for the configured tag.
DirEntry(id, name, isfile, mdate, tag) ==
    [id |-> id, name |-> name, isfile |-> isfile, mdate |-> mdate, tag |-> tag]

\* A directory path: whether it exists, is a directory, and its entries in
\* the order of iterdir().
Directory(exists, is_dir, entries) ==
    [exists |-> exists, is_dir |-> is_dir, entries |-> entries]

\* The regular files below the directory: where each one is.
FilesOf(entries) ==
    {[id |-> entries[k].id, folder |-> Root, name |-> entries[k].name] :
        k \in {j \in 1..Len(entries) : entries[j].isfile}}

\* str.replace(suf, ''): every occurrence of the suffix is removed.
Replace(toks, suf) == SelectSeq(toks, LAMBDA x : x /= suf)

\* lines 135-137: the name with each of its suffixes replaced by ''.
RECURSIVE StripSuffixes(_, _)
StripSuffixes(toks, sufs) ==
    IF sufs = <<>> THEN toks
    ELSE StripSuffixes(Replace(toks, Head(sufs)), Tail(sufs))

\* line 138: single_ext_file_name (the caller has checked suffixes[-1]).
SingleExtFileName(n) ==
    LET p == StripSuffixes(n.stem \o n.sufs, n.sufs) IN
    Name(p, <<n.sufs[Len(n.sufs)]>>)

NoDateInfo(e, media_tag) == NoDate

\* lines 143-145: date_info, when a media tag is configured.
DateInfo(e, media_tag) == IF media_tag /= NoTag THEN e.tag ELSE NoDate

\* lines 147-151 and 156-160: the dated name.
DatedName(date, n, file_idx, rename_as_prefix) ==
    IF rename_as_prefix
    THEN Name(<<date, "_">> \o SingleExtFileName(n).stem, SingleExtFileName(n).sufs)
    ELSE Name(<<date, "-", Idx5(file_idx)>>, <<n.sufs[Len(n.sufs)]>>)

\* lines 140-166: new_file_name.
NewFileName(e, file_idx, rename_as_prefix, mtime, media_tag) ==
    IF DateInfo(e, media_tag) /= NoDate
    THEN DatedName(DateInfo(e, media_tag), e.name, file_idx, rename_as_prefix)
    ELSE IF mtime THEN DatedName(e.mdate, e.name, file_idx, rename_as_prefix)
    ELSE SingleExtFileName(e.name)

\* lines 117-131: destination_folder, from the file's modification date.
DestinationFolder(e, rename_method) ==
    IF rename_method = TREE THEN YearMonthDay(e.mdate) ELSE Root

\* lines 109-176: the loop over the listed names.  st is the state of the
\* call: the files, file_idx, the exception raised, the files moved.
RECURSIVE OrganizeLoop(_, _, _, _, _, _)
OrganizeLoop(es, st, rename_method, rename_as_prefix, mtime, media_tag) ==
    IF es = <<>> \/ st.raised /= NoError THEN st
    ELSE
        LET e == Head(es)
            here == {f \in st.files : f.folder = Root /\ f.name = e.name}
            next ==
                IF here = {} THEN st
                ELSE IF rename_method \notin {TREE, OVERWRITE}
                THEN [st EXCEPT !.raised = "ValueError", !.file_idx = @ + 1]
                ELSE IF e.name.sufs = <<>>
                THEN [st EXCEPT !.raised = "IndexError", !.file_idx = @ + 1]
                ELSE IF DateInfo(e, media_tag) = TagRaises
                THEN [st EXCEPT !.raised = "Exception", !.file_idx = @ + 1]
                ELSE
                    LET f == CHOOSE x \in here : TRUE
                        to == [id |-> f.id,
                               folder |-> DestinationFolder(e, rename_method),
                               name |-> NewFileName(e, st.file_idx + 1, rename_as_prefix,
                                                    mtime, media_tag)]
                        gone == {x \in st.files :
                                    x = f \/ (x.folder = to.folder /\ x.name = to.name)}
                    IN [st EXCEPT !.files = (@ \ gone) \cup {to},
                                  !.file_idx = @ + 1,
                                  !.moved = @ \cup {f.id}]
        IN OrganizeLoop(Tail(es), next, rename_method, rename_as_prefix, mtime, media_tag)

\* organizer.py lines 90-176.  The result: the exception raised, the files
\* below the directory afterwards, the files shutil.move was called for.
organize_files_in_place(directory, rename_method, rename_as_prefix, mtime, media_tag) ==
    LET st == [raised |-> NoError, files |-> FilesOf(directory.entries),
               file_idx |-> 0, moved |-> {}]
    IN IF ~directory.exists \/ ~directory.is_dir
       THEN [raised |-> "FileNotFoundError", files |-> {}, file_idx |-> 0, moved |-> {}]
       ELSE OrganizeLoop(directory.entries, st, rename_method, rename_as_prefix,
                         mtime, media_tag)

\* The run's target folder for path p: the regular files copied there.
TargetFolder(t, p) ==
    LET cs == SelectSeq(h[t].copies, LAMBDA c : c.to = p) IN
    Folder([k \in 1..Len(cs) |->
               Files(cs[k].first, cs[k].count, cs[k].stem, cs[k].sufs, TRUE)])

\* The folder as the organizer sees it: one entry for each numbered series.
AsDirectory(folder) ==
    Directory(folder.exists, TRUE,
              [k \in 1..Len(folder.entries) |->
                  DirEntry(k, Name(<<folder.entries[k].stem>>, folder.entries[k].sufs),
                           folder.entries[k].isfile, Day1, NoDate)])

\* line 227: the organizer is called for the grab (whatever its method).
OrganizeCalled(g) == TRUE

\* lines 224-232: one iteration of the organize loop.
Organize(t) ==
    /\ pc[t] = "hci_organize"
    /\ LET gs == lists[grabs_iter[t]] IN
       IF gi[t] > Len(gs)
       THEN /\ pc' = [pc EXCEPT ![t] = "hci_success"]
            /\ UNCHANGED <<progress, gi, h, app_state, pushed>>
       ELSE LET g == gs[gi[t]] IN
            IF ~OrganizeCalled(g)
            THEN /\ gi' = [gi EXCEPT ![t] = @ + 1]
                 /\ UNCHANGED <<pc, progress, h, app_state, pushed>>
            ELSE IF organize_files_in_place(AsDirectory(TargetFolder(t, g.path)),
                                            g.rename_method, TRUE, TRUE, NoTag).raised
                    = NoError
            THEN /\ gi' = [gi EXCEPT ![t] = @ + 1]
                 /\ Advance(t, 1, "hci_organize",
                            [h[t] EXCEPT !.organized = @ \cup {gi[t]}])
            ELSE /\ pc' = [pc EXCEPT ![t] = "hci_except"]
                 /\ h' = [h EXCEPT ![t].organized = @ \cup {gi[t]}, ![t].org_fail = TRUE]
                 /\ UNCHANGED <<progress, gi, app_state, pushed>>
    /\ UNCHANGED <<processed_devices, lock, cfg, lists, card, mounts, dev,
                   total_progress, src_file_list, grabs_iter, nEvents>>
    /\ UNCHANGED timerVars
    /\ UNCHANGED <<warned, org>>

\* line 234: the progress value written at the end of a successful run.
FinalProgress(t) == FullProgress

\* lines 234-237: progress 100, READY, the mark removed; set.remove raises
\* KeyError, caught by "except Exception" below, when the mark is gone.
Success(t) ==
    /\ pc[t] = "hci_success"
    /\ app_state' = [app_state EXCEPT !.progress = FinalProgress(t), !.status = READY]
    /\ IF dev[t] \in processed_devices
       THEN /\ processed_devices' = processed_devices \ {dev[t]}
            /\ pc' = [pc EXCEPT ![t] = "hci_finally"]
            /\ h' = [h EXCEPT ![t].cleared = TRUE]
       ELSE /\ pc' = [pc EXCEPT ![t] = "hci_except"]
            /\ UNCHANGED <<processed_devices, h>>
    /\ UNCHANGED <<lock, pushed, cfg, lists, card, mounts, dev,
                   total_progress, progress, src_file_list, grabs_iter, gi,
                   nEvents>>
    /\ UNCHANGED timerVars
    /\ UNCHANGED <<warned, org>>

\* lines 239-243: ERROR, the mark removed; a KeyError raised here leaves the
\* function after the finally block.
Except(t) ==
    /\ pc[t] = "hci_except"
    /\ app_state' = [app_state EXCEPT !.status = ERROR]
    /\ IF dev[t] \in processed_devices
       THEN /\ processed_devices' = processed_devices \ {dev[t]}
            /\ h' = [h EXCEPT ![t].cleared = TRUE]
       ELSE /\ h' = [h EXCEPT ![t].exc = TRUE]
            /\ UNCHANGED processed_devices
    /\ pc' = [pc EXCEPT ![t] = "hci_finally"]
    /\ UNCHANGED <<lock, pushed, cfg, lists, card, mounts, dev,
                   total_progress, progress, src_file_list, grabs_iter, gi,
                   nEvents>>
    /\ UNCHANGED timerVars
    /\ UNCHANGED <<warned, org>>

\* lines 246-249: the final snapshot is pushed and the lock released.
Finally(t) ==
    /\ pc[t] = "hci_finally"
    /\ Emit(app_state)
    /\ lock' = FALSE
    /\ h' = [h EXCEPT ![t].fin = app_state,
                      ![t].unlocks = IF lock THEN @ + 1 ELSE @]
    /\ pc' = [pc EXCEPT ![t] = "hci_unmount"]
    /\ UNCHANGED <<processed_devices, app_state, cfg, lists, card, mounts, dev,
                   total_progress, progress, src_file_list, grabs_iter, gi,
                   nEvents>>
    /\ UNCHANGED timerVars
    /\ UNCHANGED <<warned, org>>

NotSwallowed(ok) == ~ok

\* lines 252-255: whether the exception of a failed unmount_device leaves the
\* try statement; "except: pass" swallows it.
UnmountRaises(ok) == FALSE

\* lines 251-255 with unmount_device (87-105): umount of the run's mountpoint
\* succeeds or fails; a failure is swallowed.
Unmount(t) ==
    /\ pc[t] = "hci_unmount"
    /\ \E ok \in BOOLEAN :
        /\ mounts' = IF ok THEN [mounts EXCEPT ![dev[t]] = NoMount] ELSE mounts
        /\ h' = [h EXCEPT ![t].unmounts = @ + 1,
                          ![t].exc = @ \/ UnmountRaises(ok)]
    /\ pc' = [pc EXCEPT ![t] = "hci_return"]
    /\ UNCHANGED <<processed_devices, lock, app_state, pushed, cfg, lists, card, dev,
                   total_progress, progress, src_file_list, grabs_iter, gi,
                   nEvents>>
    /\ UNCHANGED timerVars
    /\ UNCHANGED <<warned, org>>

\* handle_card_insert returns to card_event line 292, or the exception
\* propagates out of both.
Return(t) ==
    /\ pc[t] = "hci_return"
    /\ pc' = [pc EXCEPT ![t] = IF h[t].exc THEN "raised" ELSE "idle"]
    /\ dev' = [dev EXCEPT ![t] = NoDev]
    /\ total_progress' = [total_progress EXCEPT ![t] = 0]
    /\ progress' = [progress EXCEPT ![t] = 0]
    /\ src_file_list' = [src_file_list EXCEPT ![t] = <<>>]
    /\ grabs_iter' = [grabs_iter EXCEPT ![t] = 0]
    /\ gi' = [gi EXCEPT ![t] = 0]
    /\ h' = [h EXCEPT ![t] = NoHist]
    /\ UNCHANGED <<processed_devices, lock, app_state, pushed, cfg, lists, card, mounts,
                   nEvents>>
    /\ UNCHANGED timerVars
    /\ UNCHANGED <<warned, org>>

\* ------------------------------------------------ AppConfigFile (config.py)
\* self._timer is the Timer of the latest notification and has not run yet.
Pending(i) == i /= NoTimer /\ tpc[i] = "waiting"

\* A Timer that is never cancelled.
NeverCancelled(i) == FALSE

\* lines 94-95: the Timer a notification cancels.
Cancelled(i) == Pending(i)

\* line 98: the interval of the new Timer.
TimerInterval == QuietTicks

\* on_modified (lines 92-99).
OnModified ==
    /\ nEvents + nNotifs < MaxInputs
    /\ LET old == nNotifs
           new == nNotifs + 1
       IN /\ nNotifs' = new
          /\ tpc' = [i \in Timers |->
                        IF i = new THEN "waiting"
                        ELSE IF i = old /\ Cancelled(i) THEN "cancelled"
                        ELSE tpc[i]]
          /\ remaining' = [i \in Timers |-> IF i = new THEN TimerInterval ELSE 0]
          /\ gap_short' = [gap_short EXCEPT ![new] =
                              old /= NoTimer /\ since_notify < QuietTicks]
          /\ since_notify' = 0
    /\ UNCHANGED <<raw, rgi, fire_age>>
    /\ UNCHANGED <<processed_devices, lock, app_state, pushed, cfg, lists, card, mounts,
                   nEvents>>
    /\ UNCHANGED eventVars
    /\ UNCHANGED <<warned, org>>

\* One clock tick passes while a Timer waits.
Tick ==
    /\ \E i \in Timers : tpc[i] = "waiting" /\ remaining[i] > 0
    /\ remaining' = [i \in Timers |->
                        IF tpc[i] = "waiting" /\ remaining[i] > 0
                        THEN remaining[i] - 1 ELSE remaining[i]]
    /\ since_notify' = IF since_notify < QuietTicks THEN since_notify + 1 ELSE since_notify
    /\ UNCHANGED <<tpc, raw, rgi, nNotifs, gap_short, fire_age>>
    /\ UNCHANGED <<processed_devices, lock, app_state, pushed, cfg, lists, card, mounts,
                   nEvents>>
    /\ UNCHANGED eventVars
    /\ UNCHANGED <<warned, org>>

\* threading.Timer.run: the interval has passed and the Timer was not
\* cancelled: reload() (lines 176-179) is called and load() waits for the lock.
TimerFire(i) ==
    /\ tpc[i] = "waiting"
    /\ remaining[i] = 0
    /\ tpc' = [tpc EXCEPT ![i] = "r_lock"]
    /\ fire_age' = [fire_age EXCEPT ![i] = since_notify]
    /\ UNCHANGED <<remaining, raw, rgi, nNotifs, since_notify, gap_short>>
    /\ UNCHANGED <<processed_devices, lock, app_state, pushed, cfg, lists, card, mounts,
                   nEvents>>
    /\ UNCHANGED eventVars
    /\ UNCHANGED <<warned, org>>

\* The grabs of a document that load() appends before it ends or fails:
\* RenameMethod[...] raises KeyError at the first unknown method.
Loadable(r, k) ==
    /\ k <= Len(r.grabs)
    /\ KnownMethod(r.grabs[k].method)

\* Where load() stands once it is about to handle entry k of raw_config['grabs'].
AfterGrab(r, k) ==
    IF k > Len(r.grabs) THEN "done"
    ELSE IF Loadable(r, k) THEN "r_append" ELSE "failed"

\* load() lines 105-107: with self._lock, the file is read and parsed; the
\* lock is released at the end of the with block.  A parse error leaves load().
LoadRead(i) ==
    /\ tpc[i] = "r_lock"
    /\ ~lock
    /\ \E s \in Snapshots :
        /\ raw' = [raw EXCEPT ![i] = s]
        /\ tpc' = [tpc EXCEPT ![i] = IF s.parsed THEN "r_scalars" ELSE "failed"]
    /\ UNCHANGED <<remaining, rgi, nNotifs, since_notify, gap_short, fire_age>>
    /\ UNCHANGED <<processed_devices, lock, app_state, pushed, cfg, lists, card, mounts,
                   nEvents>>
    /\ UNCHANGED eventVars
    /\ UNCHANGED <<warned, org>>

\* load() lines 109-126: the scalar fields are assigned.
LoadScalars(i) ==
    /\ tpc[i] = "r_scalars"
    /\ cfg' = [cfg EXCEPT !.delete_after_copy = raw[i].delete_after_copy]
    /\ tpc' = [tpc EXCEPT ![i] = "r_newlist"]
    /\ UNCHANGED <<remaining, raw, rgi, nNotifs, since_notify, gap_short, fire_age>>
    /\ UNCHANGED <<processed_devices, lock, app_state, pushed, lists, card, mounts,
                   nEvents>>
    /\ UNCHANGED eventVars
    /\ UNCHANGED <<warned, org>>

\* load() lines 128-132: grabs becomes a new empty list; raw_config['grabs']
\* raises KeyError when the key is missing.
LoadNewList(i) ==
    /\ tpc[i] = "r_newlist"
    /\ lists' = [lists EXCEPT ![i] = <<>>]
    /\ cfg' = [cfg EXCEPT !.grabs = i]
    /\ LET to == IF raw[i].has_grabs THEN AfterGrab(raw[i], 1) ELSE "failed" IN
        /\ tpc' = [tpc EXCEPT ![i] = to]
        /\ rgi' = [rgi EXCEPT ![i] = IF to = "r_append" THEN 1 ELSE 0]
        /\ raw' = [raw EXCEPT ![i] = IF to = "r_append" THEN @ ELSE Unparsable]
    /\ UNCHANGED <<remaining, nNotifs, since_notify, gap_short, fire_age>>
    /\ UNCHANGED <<processed_devices, lock, app_state, pushed, card, mounts, nEvents>>
    /\ UNCHANGED eventVars
    /\ UNCHANGED <<warned, org>>

\* load() lines 132-174: one grab is built and appended; after the last one
\* load() completes (lines 167-174, reload() line 182).
LoadAppend(i) ==
    /\ tpc[i] = "r_append"
    /\ lists' = [lists EXCEPT ![i] = Append(@, ParseGrab(raw[i].grabs[rgi[i]]))]
    /\ LET to == AfterGrab(raw[i], rgi[i] + 1) IN
        /\ tpc' = [tpc EXCEPT ![i] = to]
        /\ rgi' = [rgi EXCEPT ![i] = IF to = "r_append" THEN @ + 1 ELSE 0]
        /\ raw' = [raw EXCEPT ![i] = IF to = "r_append" THEN @ ELSE Unparsable]
    /\ UNCHANGED <<remaining, nNotifs, since_notify, gap_short, fire_age>>
    /\ UNCHANGED <<processed_devices, lock, app_state, pushed, cfg, card, mounts, nEvents>>
    /\ UNCHANGED eventVars
    /\ UNCHANGED <<warned, org>>

\* ------------------------------------------------------- the specification
Next ==
    \/ \E t \in Threads : CardEvent(t)
    \/ \E t \in Threads : AddMark(t)
    \/ \E t \in Threads : RemoveMark(t)
    \/ \E t \in Threads : AcquireLock(t)
    \/ \E t \in Threads : SetBusy(t)
    \/ \E t \in Threads : Mount(t)
    \/ \E t \in Threads : MountFailed(t)
    \/ \E t \in Threads : ScanBegin(t)
    \/ \E t \in Threads : ScanGrab(t)
    \/ \E t \in Threads : CheckMedia(t)
    \/ \E t \in Threads : CopyFiles(t)
    \/ \E t \in Threads : DeleteAfterCopy(t)
    \/ \E t \in Threads : Organize(t)
    \/ \E t \in Threads : Success(t)
    \/ \E t \in Threads : Except(t)
    \/ \E t \in Threads : Finally(t)
    \/ \E t \in Threads : Unmount(t)
    \/ \E t \in Threads : Return(t)
    \/ OnModified
    \/ Tick
    \/ \E i \in Timers : TimerFire(i)
    \/ \E i \in Timers : LoadRead(i)
    \/ \E i \in Timers : LoadScalars(i)
    \/ \E i \in Timers : LoadNewList(i)
    \/ \E i \in Timers : LoadAppend(i)

Spec == Init /\ [][Next]_vars

\* ---------------------------------------------------------------------------
\* organize_files_in_place on its own: the call's arguments are drawn from
\* the sets below, the function is applied, and applied again to its result.

Photo == Name(<<"a">>, <<".jpg">>)
Archive == Name(<<"b">>, <<".tar", ".gz">>)
Clip == Name(<<"c">>, <<".mp4">>)
Readme == Name(<<"README">>, <<>>)
SubDir == Name(<<"sub">>, <<>>)

\* The directories the organizer is called on.
OrgDirs ==
    { Directory(FALSE, FALSE, <<>>),
      Directory(TRUE, FALSE, <<>>),
      Directory(TRUE, TRUE, <<>>),
      Directory(TRUE, TRUE, <<DirEntry(1, SubDir, FALSE, Day1, NoDate)>>),
      Directory(TRUE, TRUE, <<DirEntry(1, Photo, TRUE, Day1, Day2)>>),
      Directory(TRUE, TRUE, <<DirEntry(1, Archive, TRUE, Day1, NoDate),
                              DirEntry(2, Clip, TRUE, Day2, Day1),
                              DirEntry(3, SubDir, FALSE, Day1, NoDate)>>),
      Directory(TRUE, TRUE, <<DirEntry(1, Photo, TRUE, Day2, Day2),
                              DirEntry(2, Readme, TRUE, Day1, NoDate)>>),
      Directory(TRUE, TRUE, <<DirEntry(1, Readme, TRUE, Day1, NoDate),
                              DirEntry(2, Photo, TRUE, Day1, NoDate)>>),
      Directory(TRUE, TRUE, <<DirEntry(1, Clip, TRUE, Day1, TagRaises),
                              DirEntry(2, Photo, TRUE, Day1, NoDate)>>) }

OrgCalls ==
    [pc : {"call"}, directory : OrgDirs, rename_method : {NONE, TREE, OVERWRITE},
     rename_as_prefix : BOOLEAN, mtime : BOOLEAN, media_tag : {NoTag, EncodedDate},
     out : {NoCall}, out2 : {NoCall}]

OrgInit ==
    \E call \in OrgCalls :
        Start(<<RawConfig(FALSE, <<RawDcim(TREE), RawClip(OVERWRITE)>>), CardNoMedia>>, call)

mainVars ==
    <<processed_devices, lock, app_state, pushed, cfg, lists, card, mounts,
      pc, dev, total_progress, progress, src_file_list, grabs_iter, gi, h,
      tpc, remaining, raw, rgi, nEvents, nNotifs, since_notify,
      gap_short, fire_age, warned>>

\* The call: organize_files_in_place(directory, ...).
OrganizerCall ==
    /\ org.pc = "call"
    /\ org' = [org EXCEPT !.pc = "done",
                          !.out = organize_files_in_place(org.directory, org.rename_method,
                                      org.rename_as_prefix, org.mtime, org.media_tag)]
    /\ UNCHANGED mainVars

\* The directory after a call: the files left directly in it, in the order
\* of their ids, each with the dates of the file it is.
Relisted(directory, files) ==
    LET attrs(id) == CHOOSE e \in {directory.entries[k] : k \in 1..Len(directory.entries)} :
                         e.id = id
        here(k) == {f \in files : f.id = k /\ f.folder = Root}
        all == [k \in 1..Len(directory.entries) |->
                   IF here(k) = {} THEN DirEntry(k, SubDir, FALSE, Day1, NoDate)
                   ELSE DirEntry(k, (CHOOSE f \in here(k) : TRUE).name, TRUE,
                                 attrs(k).mdate, attrs(k).tag)]
    IN Directory(TRUE, TRUE, SelectSeq(all, LAMBDA e : e.isfile))

\* The same call once more, on the directory the first call left.
OrganizerAgain ==
    /\ org.pc = "done"
    /\ org.out.raised = NoError
    /\ org' = [org EXCEPT !.pc = "twice",
                          !.out2 = organize_files_in_place(
                                       Relisted(org.directory, org.out.files),
                                       org.rename_method, org.rename_as_prefix,
                                       org.mtime, org.media_tag)]
    /\ UNCHANGED mainVars

OrgNext == OrganizerCall \/ OrganizerAgain

OrgSpec == OrgInit /\ [][OrgNext]_vars

\* ------------------------------------------------------------- properties
\* The configuration a reader of app_config sees: the scalar fields and the
\* contents of the grabs list.
ConfigValue == [delete_after_copy |-> cfg.delete_after_copy, grabs |-> lists[cfg.grabs]]

\* load() raises on the document: not YAML, no 'grabs' key, or a rename
\* method that is not a member of RenameMethod.
Invalid(r) ==
    \/ ~r.parsed
    \/ ~r.has_grabs
    \/ \E k \in 1..Len(r.grabs) : ~KnownMethod(r.grabs[k].method)

\* The step is one of load(), run by Timer i, after the file was read.
LoadStep(i) ==
    /\ tpc[i] \in {"r_scalars", "r_newlist", "r_append"}
    /\ tpc'[i] /= tpc[i] \/ rgi'[i] /= rgi[i]

\* reload() has been called by Timer i.
Started(i) == tpc[i] \in {"r_lock", "r_scalars", "r_newlist", "r_append", "done", "failed"}

\* C1: for any interleaving of add events for the same device node, at most
\* one run of handle_card_insert for that node is active at any instant
\* (entered and not yet returned): the membership test and the insertion
\* into processed_devices act as one atomic check-and-insert.
C1_OneRunPerNode ==
    \A t \in Threads : \A u \in Threads :
        (t /= u /\ InRun(t) /\ InRun(u)) => dev[t] /= dev[u]

\* C2: between a run's acquisition of the config lock and its release, no
\* field of the in-memory configuration, the grabs list included, changes:
\* every step taken while a run holds the lock leaves the configuration as
\* it was.
C2_ConfigFrozenDuringRun ==
    [][(\E t \in Threads : HoldsLock(t) /\ HoldsLock(t)') => ConfigValue' = ConfigValue]_vars

\* C3: a run whose mount succeeded, whose scan matched at least one file,
\* in which no filesystem operation failed and during which no remove event
\* cleared the mark, ends with status READY, progress 100, the dedupe mark
\* cleared and that final state pushed, whatever the number of grabs and
\* their rename methods.
C3_SuccessEndsReady ==
    \A t \in Threads :
        (/\ pc[t] = "hci_return"
         /\ h[t].mount_ok
         /\ h[t].scan_done
         /\ src_file_list[t] /= <<>>
         /\ ~h[t].fs_fail
         /\ ~h[t].removed)
        => /\ h[t].fin.status = READY
           /\ h[t].fin.progress = FullProgress
           /\ h[t].cleared

\* C4: within one run, the progress values of the snapshots pushed, from the
\* initial 0 to the final snapshot, never decrease.
C4_ProgressMonotone ==
    \A k \in 2..Len(pushed) : pushed[k - 1].progress <= pushed[k].progress

\* C5: a run whose mount failed ends with status ERROR pushed, the dedupe
\* mark cleared, no destination folder created, and the cleanup executed:
\* unmount is attempted.
C5_MountFailureCleansUp ==
    \A t \in Threads :
        (pc[t] = "hci_return" /\ ~h[t].mount_ok)
        => /\ h[t].fin.status = ERROR
           /\ h[t].cleared
           /\ ~h[t].dest_made
           /\ h[t].unmounts = 1

\* C6, as a property of finite runs: no run leaves the router or the config
\* watcher blocked or terminated.  The config lock is held only while a run
\* that will release it is between lock() and unlock() (otherwise every
\* later add blocks for ever in app_config.lock() and every later reload in
\* load()), and no run ends by raising into the event callback.
C6_NoRunLeavesBlocked ==
    /\ lock => \E t \in Threads : HoldsLock(t)
    /\ \A t \in Threads : pc[t] = "hci_return" => ~h[t].exc

\* C7: a reload that read an invalid document (no 'grabs' key, an unknown
\* rename method) leaves every field of the in-memory configuration, the
\* grabs list included, as it was: no step of such a load() changes it.
C7_InvalidReloadKeepsConfig ==
    [][\A i \in Timers :
          (LoadStep(i) /\ Invalid(raw[i])) => ConfigValue' = ConfigValue]_vars

\* C8: in a burst of notifications, each less than the quiet period after
\* the previous one, only the last one's Timer calls reload(), and not
\* before the quiet period has passed since that last notification; a
\* notification that arrives while a Timer is pending cancels it.
\*  - a Timer calls reload() only QuietTicks after the latest notification;
\*  - the Timer of a notification followed by another one within the quiet
\*    period was cancelled and never calls reload();
\*  - only the Timer of the latest notification can be pending;
\*  - the Timer of the latest notification is not cancelled.
C8_Debounce ==
    \A i \in Timers :
        /\ Started(i) => fire_age[i] >= QuietTicks
        /\ (i > 1 /\ gap_short[i]) => tpc[i - 1] = "cancelled"
        /\ i < nNotifs => tpc[i] /= "waiting"
        /\ i = nNotifs => tpc[i] /= "cancelled"

\* A burst of two notifications: the first Timer was cancelled, the second
\* one has called reload().
C8_Witness ==
    /\ nNotifs = 2
    /\ gap_short[2]
    /\ tpc[1] = "cancelled"
    /\ Started(2)

\* C9: a run whose mount succeeded and whose scan went through every grab
\* (zero grabs included) without matching a file ends with media_count 0,
\* status READY and progress 100, creates no destination folder and never
\* divides by a total_progress of 0.
C9_NoMediaEndsReady ==
    \A t \in Threads :
        (/\ pc[t] = "hci_return"
         /\ h[t].mount_ok
         /\ h[t].scan_done
         /\ src_file_list[t] = <<>>)
        => /\ h[t].fin.media_count = 0
           /\ h[t].fin.status = READY
           /\ h[t].fin.progress = FullProgress
           /\ ~h[t].dest_made
           /\ ~h[t].div0

\* C10: a file is copied into the target folder of grab G only if it is a
\* regular file of G's own source folder whose lowercased name ends with one
\* of G's types; no file is copied twice into the same target; and
\* media_count is the number of such regular files matched by the scan.
C10_CopiesOwnMatches ==
    \A t \in Threads :
        /\ \A k \in 1..Len(h[t].copies) :
              LET c == h[t].copies[k] IN
              c.from = c.grab.path /\ MatchesTypes(c, c.grab.types)
        /\ \A j \in 1..Len(h[t].copies) : \A k \in 1..Len(h[t].copies) :
              LET c == h[t].copies[j]
                  d == h[t].copies[k]
              IN (j < k /\ c.to = d.to /\ c.from = d.from) => Names(c) \cap Names(d) = {}
        /\ pc[t] = "hci_check"
              => app_state.media_count = Count(SelectSeq(src_file_list[t], Readable))

\* An exception was raised by the scan, copy, delete or organize steps.
StepRaised(t) == h[t].fs_fail \/ h[t].org_fail \/ h[t].div0

\* C11: a run in which the scan, copy, delete or organize steps raised ends
\* with status ERROR pushed, the node's mark cleared, and returns normally:
\* no exception leaves handle_card_insert, whatever processed_devices holds.
C11_ExceptionsHandled ==
    \A t \in Threads :
        (pc[t] = "hci_return" /\ StepRaised(t))
        => /\ h[t].fin.status = ERROR
           /\ h[t].cleared
           /\ ~h[t].exc

\* C12: a remove event for a node under ingestion only clears the mark: a
\* run whose mount succeeded and none of whose own steps failed still ends
\* READY, and returns normally, when such an event arrived during the run.
C12_RemoveOnlyClearsMark ==
    \A t \in Threads :
        (/\ pc[t] = "hci_return"
         /\ h[t].removed
         /\ h[t].mount_ok
         /\ ~StepRaised(t))
        => /\ h[t].fin.status = READY
           /\ ~h[t].exc

\* A run is in flight: handle_card_insert was called and its cleanup (the
\* finally block) is not finished.
InFlight(t) == pc[t] \in RunPcs \ {"hci_return"}

\* C13: a device node is in processed_devices if and only if a run for that
\* node is in flight.
C13_MarkIffInFlight ==
    \A s \in SysNames :
        s \in processed_devices <=> \E t \in Threads : InFlight(t) /\ dev[t] = s

\* C17: an event whose sys_name matches neither device pattern starts no
\* run and leaves processed_devices and the application state unchanged,
\* for "add" and for "remove": every step that takes a thread out of idle
\* does so for a matching name, and the step that logs the unknown pattern
\* changes nothing else.
C17_UnknownPatternIgnored ==
    [][ /\ \A t \in Threads :
              (pc[t] = "idle" /\ pc'[t] /= "idle") =>
                  (DrvMatch(dev'[t]) \/ MmcMatch(dev'[t]))
        /\ (warned' /= warned) =>
              UNCHANGED <<processed_devices, app_state, pushed, pc, dev, h, lock>>
      ]_vars

\* An event for a name of neither pattern has been delivered and nothing
\* else has happened.
C17_Witness ==
    /\ warned
    /\ processed_devices = {}
    /\ app_state = AppState(READY, 0, 0, NoDev)
    /\ pushed = <<>>
    /\ \A t \in Threads : pc[t] = "idle" /\ dev[t] = NoDev

\* C18: mount_device on a node that is already mounted returns the existing
\* mountpoint, creates no mount-base directory, issues no mount command
\* and leaves the mounts as they are.
C18_MountedNodeNotRemounted ==
    [][ \A t \in Threads :
            (pc[t] = "hci_mount" /\ pc'[t] /= "hci_mount" /\ mounts[dev[t]] /= NoMount) =>
                /\ pc'[t] = "hci_scan_begin"
                /\ h'[t].mount_ok
                /\ h'[t].mountpoint = mounts[dev[t]]
                /\ h'[t].mount_cmds = h[t].mount_cmds
                /\ mounts' = mounts
      ]_vars

\* A run on the card that was mounted at /media/card before it started goes
\* on with that mountpoint, without any mkdir or mount command.
C18_Witness ==
    \E t \in Threads :
        /\ pc[t] = "hci_scan_begin"
        /\ mounts[dev[t]] = MediaCard
        /\ h[t].mount_ok
        /\ h[t].mountpoint = MediaCard
        /\ h[t].mount_cmds = 0

\* C19: every run releases the configuration lock it acquired exactly once
\* before handle_card_insert returns, on every path, so that a reload
\* waiting for the lock can proceed once the run has ended.
C19_LockReleasedOnce ==
    \A t \in Threads : pc[t] = "hci_return" => h[t].unlocks = 1

\* The run of thread t has copied every file of series e from the source
\* folder of grab g into the grab's target folder.
CopiedByRun(t, g, e) ==
    \E j \in 1..Len(h[t].copies) :
        LET c == h[t].copies[j] IN
        /\ c.from = g.path
        /\ c.to = g.path
        /\ c.stem = e.stem /\ c.sufs = e.sufs
        /\ c.first <= e.first
        /\ e.first + e.count <= c.first + c.count

\* C20: a run deletes a grab's source folder only if the grab is not marked
\* never_delete and every file of the folder that matches the grab's types
\* has been copied to the grab's target folder in this run.
C20_DeleteOnlyAfterCopy ==
    \A t \in Threads : \A d \in h[t].deleted :
        /\ ~d.grab.never_delete
        /\ \A k \in 1..Len(d.entries) :
              (d.entries[k].isfile /\ MatchesTypes(d.entries[k], d.grab.types))
                  => CopiedByRun(t, d.grab, d.entries[k])

\* C21: in the organize pass the organizer is invoked only for grabs whose
\* rename method is not NONE, the grabs the scan pass added the weight of 1
\* for.
C21_OrganizeOnlyRenamingGrabs ==
    \A t \in Threads : \A i \in h[t].organized :
        MethodValue(lists[grabs_iter[t]][i].rename_method) > 0

\* C22: every progress value exposed in a snapshot lies in 0..100, the
\* running counter of a run never exceeds the total weight its scan
\* computed, and the final value of a successful run is exactly 100.
C22_ProgressInRange ==
    /\ app_state.progress \in 0..FullProgress
    /\ \A k \in 1..Len(pushed) : pushed[k].progress \in 0..FullProgress
    /\ \A t \in Threads :
          /\ pc[t] \in {"hci_copy", "hci_delete", "hci_organize", "hci_success"}
                => progress[t] <= total_progress[t]
          /\ (pc[t] = "hci_return" /\ h[t].fin.status = READY)
                => h[t].fin.progress = FullProgress

\* C23: in every run whose mount succeeded the unmount is attempted
\* exactly once, after the run released the configuration lock, whatever
\* happened in between; the attempt, failed or not, changes neither the
\* application state nor the run's final status and raises nothing.
C23_UnmountOnceAfterUnlock ==
    [][ \A t \in Threads :
          /\ (pc'[t] = "hci_return" /\ h'[t].mount_ok) => h'[t].unmounts = 1
          /\ (h'[t].unmounts > h[t].unmounts) =>
                /\ h[t].mount_ok
                /\ h[t].unmounts = 0
                /\ h[t].unlocks = 1
                /\ ~HoldsLock(t)
                /\ app_state' = app_state
                /\ h'[t].fin = h[t].fin
                /\ h'[t].exc = h[t].exc
      ]_vars

\* A run that mounted the card has returned after a failed unmount: the
\* card is still mounted, the run made one attempt after its unlock and
\* ended READY without an exception.
C23_Witness ==
    \E t \in Threads :
        /\ pc[t] = "hci_return"
        /\ h[t].mount_ok
        /\ h[t].mount_cmds = 1
        /\ mounts[dev[t]] = h[t].mountpoint
        /\ h[t].unmounts = 1
        /\ h[t].unlocks = 1
        /\ h[t].fin.status = READY
        /\ ~h[t].exc

\* C26: the status is BUSY only while a run holds the configuration lock,
\* and every run that became BUSY has pushed, when handle_card_insert
\* returns, a final snapshot whose status is READY or ERROR.
C26_StatusPerRun ==
    /\ app_state.status = BUSY => \E t \in Threads : HoldsLock(t)
    /\ \A t \in Threads : pc[t] = "hci_return" => h[t].fin.status \in {READY, ERROR}

\* ---------------------------------------------------------------------------
\* The organizer's claims, over OrgSpec.

\* The call was made on an existing directory.
IsDirectory == org.directory.exists /\ org.directory.is_dir

\* The entry of the organized directory that file id was.
InputEntry(id) ==
    CHOOSE e \in {org.directory.entries[k] : k \in 1..Len(org.directory.entries)} : e.id = id

\* The date a produced file name starts with, if any.
DateOf(n) == IF n.stem /= <<>> /\ n.stem[1] \in Dates THEN n.stem[1] ELSE NoDate

\* The name with every suffix but its last stripped, as the specification
\* defines it for names with zero, one or several suffixes.
CollapsedName(n) == IF n.sufs = <<>> THEN n ELSE Name(n.stem, <<n.sufs[Len(n.sufs)]>>)

\* C14: organize fails with NotFound when the directory does not exist or is
\* not a directory, and with InvalidArgument whenever the rename method is
\* NONE, whatever the directory contains, an empty directory included; in
\* both cases no file has been moved or renamed.
C14_OrganizeFailures ==
    org.pc = "done" =>
        /\ ~IsDirectory =>
              org.out.raised = "FileNotFoundError" /\ org.out.moved = {}
        /\ (IsDirectory /\ org.rename_method = NONE) =>
              org.out.raised = "ValueError" /\ org.out.moved = {}

\* C15: for every file the organizer renamed, if a media tag is configured
\* and yields a date for the file and mtime is true, the produced name
\* carries the media-tag date; it carries the modification date only if the
\* media tag yields no date.
C15_MediaTagDateFirst ==
    org.pc = "done" =>
        \A f \in org.out.files :
            f.id \in org.out.moved =>
                LET e == InputEntry(f.id) IN
                /\ (org.media_tag /= NoTag /\ e.tag \in Dates /\ org.mtime)
                      => DateOf(f.name) = e.tag
                /\ (org.mtime /\ DateOf(f.name) = e.mdate /\ e.mdate /= e.tag)
                      => (org.media_tag = NoTag \/ e.tag \notin Dates)

\* A file with a media-tag date and another modification date was renamed,
\* with mtime true, to a name carrying the media-tag date.
C15_Witness ==
    /\ org.pc = "done"
    /\ org.media_tag /= NoTag
    /\ org.mtime
    /\ \E f \in org.out.files :
          /\ f.id \in org.out.moved
          /\ InputEntry(f.id).tag \in Dates
          /\ InputEntry(f.id).tag /= InputEntry(f.id).mdate
          /\ DateOf(f.name) = InputEntry(f.id).tag

\* C16: with OVERWRITE, no media tag and mtime false, the call raises no
\* error and leaves every direct regular file in the directory under its
\* extension-collapsed name, whether the name has zero, one or several
\* suffixes; a second call changes nothing.
C16_OverwriteCollapses ==
    (org.pc \in {"done", "twice"} /\ IsDirectory /\ org.rename_method = OVERWRITE
        /\ org.media_tag = NoTag /\ ~org.mtime) =>
        /\ org.out.raised = NoError
        /\ \A k \in 1..Len(org.directory.entries) :
              org.directory.entries[k].isfile =>
                  [id |-> org.directory.entries[k].id, folder |-> Root,
                   name |-> CollapsedName(org.directory.entries[k].name)] \in org.out.files
        /\ org.pc = "twice" =>
              org.out2.raised = NoError /\ org.out2.files = org.out.files

\* Every regular file of the organized directory has a suffix.
AllSuffixed ==
    \A k \in 1..Len(org.directory.entries) :
        org.directory.entries[k].isfile => org.directory.entries[k].name.sufs /= <<>>

\* C24: a failure while deriving the date from the media tag counts as "no
\* date from metadata": the call does not abort, and every file without a
\* media-tag date is still renamed, from its modification date when mtime
\* is true and to its collapsed name otherwise.
C24_TagFailureIsNoDate ==
    (org.pc = "done" /\ IsDirectory /\ org.rename_method \in {TREE, OVERWRITE}
        /\ org.media_tag /= NoTag /\ AllSuffixed) =>
        /\ org.out.raised = NoError
        /\ \A k \in 1..Len(org.directory.entries) :
              LET e == org.directory.entries[k] IN
              (e.isfile /\ e.tag \notin Dates) =>
                  \E f \in org.out.files :
                      /\ f.id = e.id
                      /\ f.id \in org.out.moved
                      /\ IF org.mtime THEN DateOf(f.name) = e.mdate
                         ELSE f.name = CollapsedName(e.name)

\* C25: with TREE, a file renamed from a derived date lies in the folder
\* year/month/day of that same date, the date its new name carries, also
\* when the date comes from the media tag and is not the modification date.
C25_TreeFolderMatchesName ==
    (org.pc = "done" /\ org.rename_method = TREE) =>
        \A f \in org.out.files :
            (f.id \in org.out.moved /\ DateOf(f.name) /= NoDate) =>
                f.folder = YearMonthDay(DateOf(f.name))

====
